---- MODULE Spec2Model ----
(***************************************************************************)
(* Model of src/SciFest/pump_control.cpp: the single-threaded controller   *)
(* that drives a pump valve and a vent valve from a TCP command stream,    *)
(* local operator input and a one second tick.                             *)
(*                                                                         *)
(* The main thread is modelled by a program counter pc whose values name   *)
(* the blocking calls and loop heads of main(); the only other actor is    *)
(* the SIGINT handler, which may run between any two steps.                *)
(***************************************************************************)
EXTENDS Integers, Sequences, FiniteSets, TLC

\* ------------------------------------------------------------------ bounds
\* Longest inbound buffer, in tokens (a token is one recognized verb, some
\* other text, or a NUL byte).
MaxTokens == 2
\* Failed connection attempts the retry history counts up to.
MaxRetries == 2

\* ------------------------------------------------------- program constants
PUMP_OFFSET == 20
VENT_OFFSET == 21
\* send_counter >= 10 at line 256
HEARTBEAT_TICKS == 10

Offsets == {PUMP_OFFSET, VENT_OFFSET}

\* enum class ValveState / enum class State
ValveState == {"On", "Off"}
State == {"WAITING", "DELIVERING"}

\* The three verbs the dispatcher looks for, other text, and a NUL byte.
PICKUP == "pickup reached"
DROP == "drop reached"
FINISHED == "one sticker finished"
Verbs == {PICKUP, DROP, FINISHED}
Tokens == Verbs \cup {"other", "NUL"}

\* Outbound messages (lines 257 and 268).
MSG_WAIT == "wait until next sticker"
MSG_DELIVER == "deliver a new sticker"

VARIABLES
    pc,            \* position of the main thread in main()
    keep_running,  \* static volatile bool keep_running
    lines,         \* "none" | "held" | "released": the gpiod line request
    gpio,          \* [val, hw, wfail]: value last written per offset, the
                   \* value the hardware line took, whether a write failed
    sockfd,        \* "indeterminate" | "-1" | "fd"
    open_fds,      \* number of socket descriptors currently open
    bad_close,     \* close() was called on a descriptor already closed
    state,         \* State state
    send_counter,  \* int send_counter
    is_on,         \* bool is_on
    select_res,    \* outcome of the last select() of the main loop
    rd_stdin,      \* FD_ISSET(0, &readfds)
    rd_sock,       \* FD_ISSET(sockfd, &readfds)
    stdin_n,       \* "none" | "byte" | "eof": result of read(0, &c, 1)
    c,             \* "unset" | "nl" | "other": the char compared at line 267
    read_n,        \* "none" | "data" | "eof" | "error": read(sockfd, ...)
    buffer,        \* char buffer[256], as a sequence of tokens; kept until
                   \* the next iteration starts
    po_i,          \* next step of pump_off to run, 0 when it is not running
    po_ret,        \* call site pump_off returns to: "none"|"dispatch"|"final"
    out,           \* message written to the socket by the last main step
    exit_code,     \* -1 while running, else the value returned by main
    on_count,      \* history: pump_on calls since pump_off last completed
    pickups,       \* history: commands that took the pickup branch since
                   \* pump_off last completed (counted up to 2)
    pk_mid,        \* history: which of "finished", "start", "reconnect"
                   \* happened since the first of those pickups
    hb_pair,       \* history: the heartbeat just sent closed an unbroken
                   \* run of tick timeouts begun by the previous heartbeat
    hb_gap,        \* history: ticks since the last heartbeat in an unbroken
                   \* run of tick timeouts in WAITING, -1 outside such a run
    fail_snap,     \* history: <<state, send_counter>> when the transport
                   \* failed, <<>> when no reconnect is pending or just done
    exit_path,     \* history: why the process is leaving: "none" | "setup"
                   \* | "inet_pton" | "conn" | "loop" | "rc_flag" | "rc_sock"
    safe_by,       \* history: what left the lines safe at release: "none"
                   \* | "baseline" | "both_off" | "pump_off"
    retries,       \* history: failed attempts of the connect or reconnect
                   \* under way or just ended (counted up to MaxRetries)
    sock0_failed,  \* history: socket() failed at the very first attempt
    sig_in_po,     \* history: SIGINT arrived while pump_off was running
    iter_start     \* history: the operator start was taken in the current
                   \* loop iteration

vars == <<pc, keep_running, lines, gpio, sockfd, open_fds, bad_close, state,
          send_counter, is_on, select_res, rd_stdin, rd_sock, stdin_n, c,
          read_n, buffer, po_i, po_ret, out, exit_code, on_count, pickups,
          pk_mid, hb_pair, hb_gap, fail_snap, exit_path, safe_by, retries,
          sock0_failed, sig_in_po, iter_start>>

sockVars == <<sockfd, open_fds, bad_close>>
ctlVars == <<state, send_counter, is_on>>
ioVars == <<rd_stdin, rd_sock, stdin_n, c, read_n, buffer>>
poVars == <<po_i, po_ret>>
histVars == <<on_count, pickups, pk_mid, hb_pair, hb_gap, fail_snap>>
Mid(ev) == IF pickups >= 1 THEN pk_mid \cup {ev} ELSE pk_mid

\* ---------------------------------------------------------------- helpers
Min(a, b) == IF a < b THEN a ELSE b

\* set_valve (lines 37-44): the requested value is handed to the driver; on
\* failure it is only reported, the line keeps its value.
set_valve(g, offset, st, ok) ==
    [val |-> [g.val EXCEPT ![offset] = st],
     hw |-> IF ok THEN [g.hw EXCEPT ![offset] = st] ELSE g.hw,
     wfail |-> g.wfail \/ ~ok]

\* The baseline used at lines 110-111, 164-165 and 313-314: pump Off, vent Off.
BothOff(g, ok1, ok2) ==
    set_valve(set_valve(g, PUMP_OFFSET, "Off", ok1), VENT_OFFSET, "Off", ok2)

pump == gpio.val[PUMP_OFFSET] = "On"
vent == gpio.val[VENT_OFFSET] = "On"
hw_pump == gpio.hw[PUMP_OFFSET] = "On"
hw_vent == gpio.hw[VENT_OFFSET] = "On"

\* Mutant of CloseCount: the descriptor is left open.
CloseCountLeaks(fd, n) == n

\* close(sockfd): closes the descriptor if sockfd names an open one.
CloseCount(fd, n) == IF fd = "fd" /\ n > 0 THEN n - 1 ELSE n
CloseBad(fd, n) == fd = "fd" /\ n = 0

\* std::string cmd(buffer) (line 288): the C string ends at the first NUL.
RECURSIVE CString(_)
CString(buf) ==
    IF buf = <<>> \/ Head(buf) = "NUL" THEN <<>>
    ELSE <<Head(buf)>> \o CString(Tail(buf))

\* cmd.find(verb) != std::string::npos
Find(cm, verb) == \E i \in DOMAIN cm : cm[i] = verb

\* All buffers read() can deliver with n > 0.
RECURSIVE SeqsUpTo(_, _)
SeqsUpTo(S, n) ==
    IF n = 0 THEN {<<>>}
    ELSE LET shorter == SeqsUpTo(S, n - 1)
         IN shorter \cup {Append(s, t) : s \in shorter, t \in S}

Buffers == SeqsUpTo(Tokens, MaxTokens) \ {<<>>}

\* ------------------------------------------------------------------- Init
Init ==
    /\ pc = "setup"
    /\ keep_running = TRUE
    /\ lines = "none"
    /\ gpio = [val |-> [o \in Offsets |-> "Off"],
               hw |-> [o \in Offsets |-> "Off"],
               wfail |-> FALSE]
    /\ sockfd = "indeterminate"
    /\ open_fds = 0
    /\ bad_close = FALSE
    /\ state = "WAITING"
    /\ send_counter = 0
    /\ is_on = FALSE
    /\ select_res = "none"
    /\ rd_stdin = FALSE
    /\ rd_sock = FALSE
    /\ stdin_n = "none"
    /\ c = "unset"
    /\ read_n = "none"
    /\ buffer = <<>>
    /\ po_i = 0
    /\ po_ret = "none"
    /\ out = "none"
    /\ exit_code = -1
    /\ on_count = 0
    /\ pickups = 0
    /\ pk_mid = {}
    /\ hb_pair = FALSE
    /\ hb_gap = -1
    /\ fail_snap = <<>>
    /\ exit_path = "none"
    /\ safe_by = "none"
    /\ retries = 0
    /\ sock0_failed = FALSE
    /\ sig_in_po = FALSE
    /\ iter_start = FALSE

\* ------------------------------------------------------- the SIGINT handler
\* handle_sigint (line 31), installed at line 47; it can run at any point.
handle_sigint ==
    /\ pc \notin {"exited", "aborted"}
    /\ keep_running
    /\ keep_running' = FALSE
    /\ UNCHANGED <<pc, lines, gpio, sockVars, ctlVars, select_res, ioVars,
                   poVars, out, exit_code, histVars>>
    /\ sig_in_po' = (pc = "pump_off")
    /\ UNCHANGED <<exit_path, safe_by, retries, sock0_failed, iter_start>>

\* ---------------------------------------------------------------- startup
\* Lines 50-107: open the chip and request the two lines; any failure
\* returns 1 before a line is held.
Setup ==
    /\ pc = "setup"
    /\ \/ /\ lines' = "held"
          /\ pc' = "baseline"
          /\ UNCHANGED exit_code
       \/ /\ pc' = "exited"
          /\ exit_code' = 1
          /\ UNCHANGED lines
    /\ UNCHANGED <<keep_running, gpio, sockVars, ctlVars, select_res, ioVars,
                   poVars, out, histVars>>
    /\ exit_path' = IF pc' = "exited" THEN "setup" ELSE exit_path
    /\ UNCHANGED <<safe_by, retries, sock0_failed, sig_in_po, iter_start>>

\* Lines 109-111: start OFF, pump off, vent closed.
Baseline ==
    /\ pc = "baseline"
    /\ \E ok1, ok2 \in BOOLEAN : gpio' = BothOff(gpio, ok1, ok2)
    /\ pc' = "inet_pton"
    /\ UNCHANGED <<keep_running, lines, sockVars, ctlVars, select_res, ioVars,
                   poVars, out, exit_code, histVars>>
    /\ UNCHANGED <<exit_path, safe_by, retries, sock0_failed, sig_in_po,
                   iter_start>>

\* Lines 116-127: address setup; on failure the lines are released (no
\* write) and main returns 1.
InetPton ==
    /\ pc = "inet_pton"
    /\ \/ /\ pc' = "conn_top"
          /\ UNCHANGED <<lines, exit_code>>
       \/ /\ lines' = "released"
          /\ exit_code' = 1
          /\ pc' = "exited"
    /\ UNCHANGED <<keep_running, gpio, sockVars, ctlVars, select_res, ioVars,
                   poVars, out, histVars>>
    /\ exit_path' = IF pc' = "exited" THEN "inet_pton" ELSE exit_path
    /\ safe_by' = IF pc' = "exited" THEN "baseline" ELSE safe_by
    /\ UNCHANGED <<retries, sock0_failed, sig_in_po, iter_start>>

\* Lines 130-132: loop test and socket().
ConnTop ==
    /\ pc = "conn_top"
    /\ IF ~keep_running
       THEN /\ pc' = "conn_done"
            /\ UNCHANGED sockVars
       ELSE \/ /\ sockfd' = "-1"
               /\ pc' = "conn_done"
               /\ UNCHANGED <<open_fds, bad_close>>
            \/ /\ sockfd' = "fd"
               /\ open_fds' = open_fds + 1
               /\ pc' = "conn_wait"
               /\ UNCHANGED bad_close
    /\ UNCHANGED <<keep_running, lines, gpio, ctlVars, select_res, ioVars,
                   poVars, out, exit_code, histVars>>
    /\ sock0_failed' = (keep_running /\ retries = 0 /\ sockfd' = "-1")
    /\ UNCHANGED <<exit_path, safe_by, retries, sig_in_po, iter_start>>

\* Lines 134-157: non-blocking connect, the wait of up to 5 s for
\* writability, and close(sockfd) on failure.
ConnWait ==
    /\ pc = "conn_wait"
    /\ \/ /\ pc' = "conn_done"
          /\ UNCHANGED sockVars
       \/ /\ bad_close' = (bad_close \/ CloseBad(sockfd, open_fds))
          /\ open_fds' = CloseCount(sockfd, open_fds)
          /\ pc' = "conn_sleep"
          /\ UNCHANGED sockfd
    /\ UNCHANGED <<keep_running, lines, gpio, ctlVars, select_res, ioVars,
                   poVars, out, exit_code, histVars>>
    /\ retries' = IF pc' = "conn_sleep" THEN Min(retries + 1, MaxRetries)
                ELSE retries
    /\ UNCHANGED <<exit_path, safe_by, sock0_failed, sig_in_po, iter_start>>

\* Line 158: sleep_s(5).
ConnSleep ==
    /\ pc = "conn_sleep"
    /\ pc' = "conn_top"
    /\ UNCHANGED <<keep_running, lines, gpio, sockVars, ctlVars, select_res,
                   ioVars, poVars, out, exit_code, histVars>>
    /\ UNCHANGED <<exit_path, safe_by, retries, sock0_failed, sig_in_po,
                   iter_start>>

\* Lines 161-198: leave if the flag was cleared, else initialise the
\* controller state and enter the main loop.
ConnDone ==
    /\ pc = "conn_done"
    /\ IF ~keep_running
       THEN /\ \E ok1, ok2 \in BOOLEAN : gpio' = BothOff(gpio, ok1, ok2)
            /\ lines' = "released"
            /\ exit_code' = 1
            /\ pc' = "exited"
            /\ UNCHANGED ctlVars
       ELSE /\ is_on' = FALSE
            /\ state' = "WAITING"
            /\ send_counter' = 0
            /\ pc' = "loop_top"
            /\ UNCHANGED <<gpio, lines, exit_code>>
    /\ UNCHANGED <<keep_running, sockVars, select_res, ioVars, poVars, out,
                   histVars>>
    /\ exit_path' = IF pc' = "exited" THEN "conn" ELSE exit_path
    /\ safe_by' = IF pc' = "exited" THEN "both_off" ELSE safe_by
    /\ retries' = 0
    /\ UNCHANGED <<sock0_failed, sig_in_po, iter_start>>

\* -------------------------------------------------------------- main loop
\* Line 237: while (keep_running).
LoopTop ==
    /\ pc = "loop_top"
    /\ pc' = IF keep_running THEN "select" ELSE "final_close"
    /\ select_res' = "none"
    /\ out' = "none"
    /\ read_n' = "none"
    /\ buffer' = <<>>
    /\ fail_snap' = <<>>
    /\ hb_pair' = FALSE
    /\ UNCHANGED <<keep_running, lines, gpio, sockVars, ctlVars, rd_stdin,
                   rd_sock, stdin_n, c, poVars, exit_code, on_count, pickups,
                   pk_mid, hb_gap>>
    /\ exit_path' = IF pc' = "final_close" THEN "loop" ELSE exit_path
    /\ retries' = 0
    /\ iter_start' = FALSE
    /\ UNCHANGED <<safe_by, sock0_failed, sig_in_po>>

\* Lines 240-245 with sockfd = -1 (socket() failed at line 131 while
\* keep_running was still true): FD_SET(-1, &readfds) writes outside the
\* set, which is undefined; a fortified build aborts the process here.  The
\* other outcome, select() watching stdin only with FD_ISSET(-1) arbitrary,
\* is covered by the select actions below.
FdSetAbort ==
    /\ pc = "select"
    /\ sockfd = "-1"
    /\ pc' = "aborted"
    /\ UNCHANGED <<keep_running, lines, gpio, sockVars, ctlVars, select_res,
                   ioVars, poVars, out, exit_code, histVars>>
    /\ UNCHANGED <<exit_path, safe_by, retries, sock0_failed, sig_in_po,
                   iter_start>>

\* Lines 246-247: select() returned -1 with errno == EINTR: continue.
SelectEintr ==
    /\ pc = "select"
    /\ select_res' = "eintr"
    /\ pc' = "loop_top"
    /\ hb_gap' = -1
    /\ UNCHANGED <<keep_running, lines, gpio, sockVars, ctlVars, ioVars,
                   poVars, out, exit_code, on_count, pickups, pk_mid,
                   hb_pair, fail_snap>>
    /\ UNCHANGED <<exit_path, safe_by, retries, sock0_failed, sig_in_po,
                   iter_start>>

\* Lines 248-251: any other select() error: close(sockfd), reconnect().
SelectError ==
    /\ pc = "select"
    /\ select_res' = "error"
    /\ bad_close' = (bad_close \/ CloseBad(sockfd, open_fds))
    /\ open_fds' = CloseCount(sockfd, open_fds)
    /\ fail_snap' = <<state, send_counter>>
    /\ hb_gap' = -1
    /\ pc' = "rc_top"
    /\ UNCHANGED <<keep_running, lines, gpio, sockfd, ctlVars, ioVars, poVars,
                   out, exit_code, on_count, pickups, pk_mid, hb_pair>>
    /\ UNCHANGED <<exit_path, safe_by, retries, sock0_failed, sig_in_po,
                   iter_start>>

\* Lines 254-262, the counter: incremented in WAITING, back to 0 when it
\* reaches HEARTBEAT_TICKS.
TickSends(st, cnt) == st = "WAITING" /\ cnt + 1 >= HEARTBEAT_TICKS

\* Mutant of TickCounter: the counter is reset one tick late.
TickCounterLate(st, cnt) ==
    IF st # "WAITING" THEN cnt
    ELSE IF cnt + 1 > HEARTBEAT_TICKS THEN 0 ELSE cnt + 1

TickCounter(st, cnt) ==
    IF st # "WAITING" THEN cnt
    ELSE IF cnt + 1 >= HEARTBEAT_TICKS THEN 0 ELSE cnt + 1

\* Lines 252-262: select() timed out after 1 s.
Tick ==
    /\ pc = "select"
    /\ select_res' = "timeout"
    /\ send_counter' = TickCounter(state, send_counter)
    /\ out' = IF TickSends(state, send_counter) THEN MSG_WAIT ELSE "none"
    /\ hb_gap' = IF TickSends(state, send_counter) THEN 0
                 ELSE IF state = "WAITING" /\ hb_gap >= 0
                      THEN Min(hb_gap + 1, HEARTBEAT_TICKS + 1)
                      ELSE -1
    /\ hb_pair' = (TickSends(state, send_counter) /\ hb_gap >= 0)
    /\ pc' = "loop_top"
    /\ UNCHANGED <<keep_running, lines, gpio, sockVars, state, is_on, ioVars,
                   poVars, exit_code, on_count, pickups, pk_mid,
                   fail_snap>>
    /\ UNCHANGED <<exit_path, safe_by, retries, sock0_failed, sig_in_po,
                   iter_start>>

\* Line 245 returning > 0: stdin, the socket or both are readable.  With
\* sockfd = -1 only stdin is watched and FD_ISSET(-1, ...) is arbitrary.
\* Mutant of SelectReady: a readable socket is served before stdin.
SelectReadySocketFirst ==
    /\ pc = "select"
    /\ \E rs, rk \in BOOLEAN :
          /\ rs \/ rk
          /\ sockfd = "-1" => rs
          /\ rd_stdin' = rs
          /\ rd_sock' = rk
    /\ select_res' = "ready"
    /\ hb_gap' = -1
    /\ pc' = IF rd_sock' THEN "sock_br" ELSE "stdin_br"
    /\ UNCHANGED <<keep_running, lines, gpio, sockVars, ctlVars, stdin_n, c,
                   read_n, buffer, poVars, out, exit_code, on_count, pickups,
                   pk_mid, hb_pair, fail_snap>>
    /\ UNCHANGED <<exit_path, safe_by, retries, sock0_failed, sig_in_po,
                   iter_start>>

SelectReady ==
    /\ pc = "select"
    /\ \E rs, rk \in BOOLEAN :
          /\ rs \/ rk
          /\ sockfd = "-1" => rs
          /\ rd_stdin' = rs
          /\ rd_sock' = rk
    /\ select_res' = "ready"
    /\ hb_gap' = -1
    /\ pc' = "stdin_br"
    /\ UNCHANGED <<keep_running, lines, gpio, sockVars, ctlVars, stdin_n, c,
                   read_n, buffer, poVars, out, exit_code, on_count, pickups,
                   pk_mid, hb_pair, fail_snap>>
    /\ UNCHANGED <<exit_path, safe_by, retries, sock0_failed, sig_in_po,
                   iter_start>>

\* Line 267: the operator start is taken on a newline in WAITING.
StartTaken(ch, st) == ch = "nl" /\ st = "WAITING"

\* Lines 264-273: read(0, &c, 1) and the start transition.  The result of
\* read is not checked: when it returns 0 or -1 (end of input) c was never
\* written and the comparison reads an indeterminate value.
StdinBr ==
    /\ pc = "stdin_br"
    /\ IF rd_stdin
       THEN \E r \in {"nl", "other", "eof"} :
               /\ stdin_n' = IF r = "eof" THEN "eof" ELSE "byte"
               /\ c' \in (IF r = "eof" THEN {"nl", "other"} ELSE {r})
       ELSE /\ stdin_n' = "none"
            /\ c' = "unset"
    /\ IF rd_stdin /\ StartTaken(c', state)
       THEN /\ out' = MSG_DELIVER
            /\ state' = "DELIVERING"
            /\ pk_mid' = Mid("start")
       ELSE /\ out' = "none"
            /\ UNCHANGED <<state, pk_mid>>
    /\ pc' = "sock_br"
    /\ UNCHANGED <<keep_running, lines, gpio, sockVars, send_counter, is_on,
                   select_res, rd_stdin, rd_sock, read_n, buffer, poVars,
                   exit_code, on_count, pickups, hb_pair, hb_gap, fail_snap>>
    /\ iter_start' = (rd_stdin /\ StartTaken(c', state))
    /\ UNCHANGED <<exit_path, safe_by, retries, sock0_failed, sig_in_po>>

\* Lines 275-286: read(sockfd, buffer, 255); n <= 0 closes the socket and
\* calls reconnect().  read(-1, ...) can only fail.
SockBr ==
    /\ pc = "sock_br"
    /\ stdin_n' = "none"
    /\ c' = "unset"
    /\ rd_stdin' = FALSE
    /\ rd_sock' = FALSE
    /\ out' = "none"
    /\ IF ~rd_sock
       THEN /\ pc' = "loop_top"
            /\ UNCHANGED <<sockVars, read_n, buffer, fail_snap>>
       ELSE \/ /\ read_n' \in (IF sockfd = "fd" THEN {"eof", "error"}
                                ELSE {"error"})
               /\ bad_close' = (bad_close \/ CloseBad(sockfd, open_fds))
               /\ open_fds' = CloseCount(sockfd, open_fds)
               /\ fail_snap' = <<state, send_counter>>
               /\ pc' = "rc_top"
               /\ UNCHANGED <<sockfd, buffer>>
            \/ /\ sockfd = "fd"
               /\ read_n' = "data"
               /\ buffer' \in Buffers
               /\ pc' = "dispatch"
               /\ UNCHANGED <<sockVars, fail_snap>>
    /\ UNCHANGED <<keep_running, lines, gpio, ctlVars, select_res, poVars,
                   exit_code, on_count, pickups, pk_mid, hb_pair, hb_gap>>
    /\ UNCHANGED <<exit_path, safe_by, retries, sock0_failed, sig_in_po,
                   iter_start>>

\* Mutant of Branch: the state test of line 291 is missing.
BranchAnyState(st, cm) ==
    IF Find(cm, PICKUP) THEN "pickup"
    ELSE IF Find(cm, DROP) THEN "drop"
    ELSE IF Find(cm, FINISHED) THEN "finished"
    ELSE "none"

\* Lines 291-300: the branch of the else-if chain a command takes.
Branch(st, cm) ==
    IF st # "DELIVERING" THEN "none"
    ELSE IF Find(cm, PICKUP) THEN "pickup"
    ELSE IF Find(cm, DROP) THEN "drop"
    ELSE IF Find(cm, FINISHED) THEN "finished"
    ELSE "none"

\* Mutant of CallsPumpOn: the is_on guard of line 293 is missing.
CallsPumpOnUnguarded(br, on) == br = "pickup"

\* Lines 293 and 295: the is_on guards of pump_on and pump_off.
CallsPumpOn(br, on) == br = "pickup" /\ ~on
CallsPumpOff(br, on) == br = "drop" /\ on

\* Lines 288-300: build cmd and dispatch it.  pump_on (lines 178-181) is one
\* write; pump_off runs as its own steps and returns to line 295.
Dispatch ==
    /\ pc = "dispatch"
    /\ LET br == Branch(state, CString(buffer)) IN
       /\ IF CallsPumpOn(br, is_on)
          THEN /\ \E ok \in BOOLEAN :
                     gpio' = set_valve(gpio, PUMP_OFFSET, "On", ok)
               /\ is_on' = TRUE
               /\ on_count' = Min(on_count + 1, 2)
          ELSE UNCHANGED <<gpio, is_on, on_count>>
       /\ pickups' = IF br = "pickup" THEN Min(pickups + 1, 2) ELSE pickups
       /\ state' = IF br = "finished" THEN "WAITING" ELSE state
       /\ pk_mid' = IF br = "finished" THEN Mid("finished") ELSE pk_mid
       /\ IF CallsPumpOff(br, is_on)
          THEN /\ pc' = "pump_off"
               /\ po_i' = 1
               /\ po_ret' = "dispatch"
          ELSE /\ pc' = "loop_top"
               /\ UNCHANGED poVars
    /\ UNCHANGED <<keep_running, lines, sockVars, send_counter, select_res,
                   ioVars, out, exit_code, hb_pair, hb_gap, fail_snap>>
    /\ UNCHANGED <<exit_path, safe_by, retries, sock0_failed, sig_in_po,
                   iter_start>>

\* ---------------------------------------------------------------- pump_off
\* Mutant of pump_off: the vent is opened before the pump is stopped.
pump_off_vent_first ==
    << [op |-> "set", offset |-> VENT_OFFSET, st |-> "On"],
       [op |-> "sleep_ms", t |-> 50],
       [op |-> "set", offset |-> PUMP_OFFSET, st |-> "Off"],
       [op |-> "sleep_s", t |-> 1],
       [op |-> "set", offset |-> VENT_OFFSET, st |-> "Off"],
       [op |-> "sleep_ms", t |-> 50] >>

\* Mutant of pump_off: the first write names the wrong line, so the pump
\* is still asserted when the vent opens.
pump_off_wrong_offset ==
    << [op |-> "set", offset |-> VENT_OFFSET, st |-> "Off"],
       [op |-> "sleep_ms", t |-> 50],
       [op |-> "set", offset |-> VENT_OFFSET, st |-> "On"],
       [op |-> "sleep_s", t |-> 1],
       [op |-> "set", offset |-> VENT_OFFSET, st |-> "Off"],
       [op |-> "sleep_ms", t |-> 50] >>

\* Lines 183-191: the body of pump_off, one entry per statement.
pump_off ==
    << [op |-> "set", offset |-> PUMP_OFFSET, st |-> "Off"],
       [op |-> "sleep_ms", t |-> 50],
       [op |-> "set", offset |-> VENT_OFFSET, st |-> "On"],
       [op |-> "sleep_s", t |-> 1],
       [op |-> "set", offset |-> VENT_OFFSET, st |-> "Off"],
       [op |-> "sleep_ms", t |-> 50] >>

\* One statement of pump_off.  After the last one control returns to the
\* caller, which clears is_on (line 295 or 311) and goes on: the dispatch
\* call site ends the loop iteration, the shutdown call site releases the
\* lines.
\* Mutant of PumpOffStep: pump_off() returns early once keep_running is
\* false, leaving the lines as they are.
PumpOffStepInterruptible ==
    /\ pc = "pump_off"
    /\ po_i \in DOMAIN pump_off
    /\ LET stmt == pump_off[po_i] IN
       IF stmt.op = "set" /\ keep_running
       THEN \E ok \in BOOLEAN :
               gpio' = set_valve(gpio, stmt.offset, stmt.st, ok)
       ELSE UNCHANGED gpio
    /\ IF po_i < Len(pump_off) /\ keep_running
       THEN /\ po_i' = po_i + 1
            /\ UNCHANGED <<pc, po_ret, is_on, on_count, pickups, pk_mid>>
       ELSE /\ po_i' = 0
            /\ po_ret' = "none"
            /\ is_on' = FALSE
            /\ on_count' = 0
            /\ pickups' = 0
            /\ pk_mid' = {}
            /\ pc' = IF po_ret = "dispatch" THEN "loop_top" ELSE "release"
    /\ UNCHANGED <<keep_running, lines, sockVars, state, send_counter,
                   select_res, ioVars, out, exit_code, hb_pair, hb_gap,
                   fail_snap>>
    /\ safe_by' = IF pc' = "release" THEN "pump_off" ELSE safe_by
    /\ UNCHANGED <<exit_path, retries, sock0_failed, sig_in_po, iter_start>>

PumpOffStep ==
    /\ pc = "pump_off"
    /\ po_i \in DOMAIN pump_off
    /\ LET stmt == pump_off[po_i] IN
       IF stmt.op = "set"
       THEN \E ok \in BOOLEAN :
               gpio' = set_valve(gpio, stmt.offset, stmt.st, ok)
       ELSE UNCHANGED gpio
    /\ IF po_i < Len(pump_off)
       THEN /\ po_i' = po_i + 1
            /\ UNCHANGED <<pc, po_ret, is_on, on_count, pickups, pk_mid>>
       ELSE /\ po_i' = 0
            /\ po_ret' = "none"
            /\ is_on' = FALSE
            /\ on_count' = 0
            /\ pickups' = 0
            /\ pk_mid' = {}
            /\ pc' = IF po_ret = "dispatch" THEN "loop_top" ELSE "release"
    /\ UNCHANGED <<keep_running, lines, sockVars, state, send_counter,
                   select_res, ioVars, out, exit_code, hb_pair, hb_gap,
                   fail_snap>>
    /\ safe_by' = IF pc' = "release" THEN "pump_off" ELSE safe_by
    /\ UNCHANGED <<exit_path, retries, sock0_failed, sig_in_po, iter_start>>

\* --------------------------------------------------------------- reconnect
\* Lines 201-203: loop test of reconnect() and socket().  Returning false
\* makes the caller break out of the main loop (lines 250 and 284).
\* Mutant of RcTop: the retry loop of reconnect() does not test keep_running.
RcTopIgnoresFlag ==
    /\ pc = "rc_top"
    /\ \/ /\ sockfd' = "-1"
          /\ pc' = "final_close"
          /\ UNCHANGED <<open_fds, bad_close>>
       \/ /\ sockfd' = "fd"
          /\ open_fds' = open_fds + 1
          /\ pc' = "rc_wait"
          /\ UNCHANGED bad_close
    /\ UNCHANGED <<keep_running, lines, gpio, ctlVars, select_res, ioVars,
                   poVars, out, exit_code, histVars>>
    /\ exit_path' = IF pc' # "final_close" THEN exit_path
                  ELSE IF keep_running THEN "rc_sock" ELSE "rc_flag"
    /\ UNCHANGED <<safe_by, retries, sock0_failed, sig_in_po, iter_start>>

RcTop ==
    /\ pc = "rc_top"
    /\ IF ~keep_running
       THEN /\ pc' = "final_close"
            /\ UNCHANGED sockVars
       ELSE \/ /\ sockfd' = "-1"
               /\ pc' = "final_close"
               /\ UNCHANGED <<open_fds, bad_close>>
            \/ /\ sockfd' = "fd"
               /\ open_fds' = open_fds + 1
               /\ pc' = "rc_wait"
               /\ UNCHANGED bad_close
    /\ UNCHANGED <<keep_running, lines, gpio, ctlVars, select_res, ioVars,
                   poVars, out, exit_code, histVars>>
    /\ exit_path' = IF pc' # "final_close" THEN exit_path
                  ELSE IF keep_running THEN "rc_sock" ELSE "rc_flag"
    /\ UNCHANGED <<safe_by, retries, sock0_failed, sig_in_po, iter_start>>

\* Mutant of ReconnectCounter: send_counter = 0 is missing.
ReconnectCounterKept(cnt) == cnt

\* Lines 209-211 and 224-226: what a successful reconnect assigns.
ReconnectState(st) == "WAITING"
ReconnectCounter(cnt) == 0

\* Lines 205-231: connect, the wait of up to 5 s, then either the reset and
\* return true (the caller continues the loop) or close(sockfd).
\* Mutant of RcWait: a successful reconnect also forgets that the pump is
\* energized.
RcWaitClearsIsOn ==
    /\ pc = "rc_wait"
    /\ \/ /\ state' = ReconnectState(state)
          /\ send_counter' = ReconnectCounter(send_counter)
          /\ is_on' = FALSE
          /\ pk_mid' = Mid("reconnect")
          /\ pc' = "loop_top"
          /\ UNCHANGED sockVars
       \/ /\ bad_close' = (bad_close \/ CloseBad(sockfd, open_fds))
          /\ open_fds' = CloseCount(sockfd, open_fds)
          /\ pc' = "rc_sleep"
          /\ UNCHANGED <<sockfd, state, send_counter, is_on, pk_mid>>
    /\ UNCHANGED <<keep_running, lines, gpio, select_res, ioVars,
                   poVars, out, exit_code, on_count, pickups, hb_pair, hb_gap,
                   fail_snap>>
    /\ retries' = IF pc' = "rc_sleep" THEN Min(retries + 1, MaxRetries)
                ELSE retries
    /\ UNCHANGED <<exit_path, safe_by, sock0_failed, sig_in_po, iter_start>>

RcWait ==
    /\ pc = "rc_wait"
    /\ \/ /\ state' = ReconnectState(state)
          /\ send_counter' = ReconnectCounter(send_counter)
          /\ pk_mid' = Mid("reconnect")
          /\ pc' = "loop_top"
          /\ UNCHANGED sockVars
       \/ /\ bad_close' = (bad_close \/ CloseBad(sockfd, open_fds))
          /\ open_fds' = CloseCount(sockfd, open_fds)
          /\ pc' = "rc_sleep"
          /\ UNCHANGED <<sockfd, state, send_counter, pk_mid>>
    /\ UNCHANGED <<keep_running, lines, gpio, is_on, select_res, ioVars,
                   poVars, out, exit_code, on_count, pickups, hb_pair, hb_gap,
                   fail_snap>>
    /\ retries' = IF pc' = "rc_sleep" THEN Min(retries + 1, MaxRetries)
                ELSE retries
    /\ UNCHANGED <<exit_path, safe_by, sock0_failed, sig_in_po, iter_start>>

\* Line 232: sleep_s(5).
\* Mutant of RcSleep: reconnect() gives up after its first failed attempt.
RcSleepGivesUp ==
    /\ pc = "rc_sleep"
    /\ pc' = IF retries >= 1 THEN "final_close" ELSE "rc_top"
    /\ UNCHANGED <<keep_running, lines, gpio, sockVars, ctlVars, select_res,
                   ioVars, poVars, out, exit_code, histVars>>
    /\ UNCHANGED <<exit_path, safe_by, retries, sock0_failed, sig_in_po,
                   iter_start>>

RcSleep ==
    /\ pc = "rc_sleep"
    /\ pc' = "rc_top"
    /\ UNCHANGED <<keep_running, lines, gpio, sockVars, ctlVars, select_res,
                   ioVars, poVars, out, exit_code, histVars>>
    /\ UNCHANGED <<exit_path, safe_by, retries, sock0_failed, sig_in_po,
                   iter_start>>

\* ---------------------------------------------------------------- shutdown
\* Line 306: close(sockfd) after the main loop.
FinalClose ==
    /\ pc = "final_close"
    /\ bad_close' = (bad_close \/ CloseBad(sockfd, open_fds))
    /\ open_fds' = CloseCount(sockfd, open_fds)
    /\ fail_snap' = <<>>
    /\ pc' = "final_safe"
    /\ UNCHANGED <<keep_running, lines, gpio, sockfd, ctlVars, select_res,
                   ioVars, poVars, out, exit_code, on_count, pickups, pk_mid,
                   hb_pair, hb_gap>>
    /\ retries' = 0
    /\ UNCHANGED <<exit_path, safe_by, sock0_failed, sig_in_po, iter_start>>

\* Lines 309-315: pump_off if the pump is logically on, else both lines Off.
\* Mutant of FinalSafe: an energized pump is not vented at shutdown, the
\* lines are released as they are.
FinalSafeSkips ==
    /\ pc = "final_safe"
    /\ IF is_on
       THEN /\ pc' = "release"
            /\ UNCHANGED <<gpio, poVars>>
       ELSE /\ \E ok1, ok2 \in BOOLEAN : gpio' = BothOff(gpio, ok1, ok2)
            /\ pc' = "release"
            /\ UNCHANGED poVars
    /\ UNCHANGED <<keep_running, lines, sockVars, ctlVars, select_res, ioVars,
                   out, exit_code, histVars>>
    /\ safe_by' = IF pc' = "release" THEN "both_off" ELSE safe_by
    /\ UNCHANGED <<exit_path, retries, sock0_failed, sig_in_po, iter_start>>

FinalSafe ==
    /\ pc = "final_safe"
    /\ IF is_on
       THEN /\ pc' = "pump_off"
            /\ po_i' = 1
            /\ po_ret' = "final"
            /\ UNCHANGED gpio
       ELSE /\ \E ok1, ok2 \in BOOLEAN : gpio' = BothOff(gpio, ok1, ok2)
            /\ pc' = "release"
            /\ UNCHANGED poVars
    /\ UNCHANGED <<keep_running, lines, sockVars, ctlVars, select_res, ioVars,
                   out, exit_code, histVars>>
    /\ safe_by' = IF pc' = "release" THEN "both_off" ELSE safe_by
    /\ UNCHANGED <<exit_path, retries, sock0_failed, sig_in_po, iter_start>>

\* Lines 318-325: release the lines and return 0.
Release ==
    /\ pc = "release"
    /\ lines' = "released"
    /\ exit_code' = 0
    /\ pc' = "exited"
    /\ UNCHANGED <<keep_running, gpio, sockVars, ctlVars, select_res, ioVars,
                   poVars, out, histVars>>
    /\ UNCHANGED <<exit_path, safe_by, retries, sock0_failed, sig_in_po,
                   iter_start>>

\* ------------------------------------------------------------ specification
Next ==
    \/ handle_sigint
    \/ Setup
    \/ Baseline
    \/ InetPton
    \/ ConnTop
    \/ ConnWait
    \/ ConnSleep
    \/ ConnDone
    \/ LoopTop
    \/ FdSetAbort
    \/ SelectEintr
    \/ SelectError
    \/ Tick
    \/ SelectReady
    \/ StdinBr
    \/ SockBr
    \/ Dispatch
    \/ PumpOffStep
    \/ RcTop
    \/ RcWait
    \/ RcSleep
    \/ FinalClose
    \/ FinalSafe
    \/ Release

Spec == Init /\ [][Next]_vars

\* The steps of main(), that is every step but the signal handler's.
main ==
    \/ Setup
    \/ Baseline
    \/ InetPton
    \/ ConnTop
    \/ ConnWait
    \/ ConnSleep
    \/ ConnDone
    \/ LoopTop
    \/ FdSetAbort
    \/ SelectEintr
    \/ SelectError
    \/ Tick
    \/ SelectReady
    \/ StdinBr
    \/ SockBr
    \/ Dispatch
    \/ PumpOffStep
    \/ RcTop
    \/ RcWait
    \/ RcSleep
    \/ FinalClose
    \/ FinalSafe
    \/ Release

\* main() is the only thread and every call it blocks in is bounded: select
\* waits at most 1 s (line 242) or 5 s (lines 143, 216), the sleeps are 50 ms,
\* 1 s and 5 s, and stdin and the socket are read only once select reported
\* them readable.  So main() always takes its next step; SIGINT may or may
\* not come.
FairSpec == Spec /\ WF_vars(main)

TypeOK ==
    /\ keep_running \in BOOLEAN
    /\ lines \in {"none", "held", "released"}
    /\ gpio.val \in [Offsets -> ValveState]
    /\ gpio.hw \in [Offsets -> ValveState]
    /\ gpio.wfail \in BOOLEAN
    /\ sockfd \in {"indeterminate", "-1", "fd"}
    /\ open_fds \in 0..1
    /\ state \in State
    /\ send_counter \in 0..(HEARTBEAT_TICKS - 1)
    /\ is_on \in BOOLEAN
    /\ po_i \in 0..Len(pump_off)
    /\ out \in {"none", MSG_WAIT, MSG_DELIVER}
    /\ exit_code \in {-1, 0, 1}
    /\ exit_path \in {"none", "setup", "inet_pton", "conn", "loop", "rc_flag",
                      "rc_sock"}
    /\ safe_by \in {"none", "baseline", "both_off", "pump_off"}
    /\ retries \in 0..MaxRetries
    /\ sock0_failed \in BOOLEAN
    /\ sig_in_po \in BOOLEAN
    /\ iter_start \in BOOLEAN

\* ================================================================== claims
\* The command the dispatcher sees, and the test "contains none of the verbs".
cmd == CString(buffer)
NoVerb(b) == \A i \in DOMAIN b : b[i] \notin Verbs

\* A step of the main thread that writes the given message to the socket.
Sends(m) == out' = m /\ out # m

\* C1: a dispatched inbound buffer makes the main loop call pump_on or
\* pump_off only if DeliveryState is DELIVERING when it is dispatched; a
\* buffer dispatched in WAITING, and a buffer holding none of the three
\* verbs, changes neither state, nor is_on, nor either valve line, and no
\* pump_off run started by a dispatch is ever under way in WAITING.
C1_ActuationOnlyInDelivering ==
    /\ [](pc = "pump_off" /\ po_ret = "dispatch" => state = "DELIVERING")
    /\ [][pc = "dispatch" /\ pc' # pc =>
            /\ (on_count' # on_count \/ gpio' # gpio \/ pc' = "pump_off")
                  => state = "DELIVERING"
            /\ (state = "WAITING" \/ NoVerb(buffer))
                  => /\ state' = state
                     /\ is_on' = is_on
                     /\ gpio' = gpio
                     /\ pc' = "loop_top"]_vars

\* C1 witness: a buffer containing 'pickup reached' has been dispatched in
\* WAITING and left the pump off (had it been dispatched in DELIVERING with
\* the pump off, is_on would now be true).
C1_Witness ==
    /\ pc = "loop_top"
    /\ read_n = "data"
    /\ Find(cmd, PICKUP)
    /\ state = "WAITING"
    /\ ~is_on
    /\ ~pump
    /\ on_count = 0

\* C2: every run of pump_off starts at its first statement and performs, in
\* this order, pump Off, a wait, vent On, a wait, vent Off, a wait; between
\* them no other line is written and no event is dispatched (DeliveryState,
\* the heartbeat counter, the socket and the outbound channel are untouched);
\* when it returns the pump and the vent are both Off.
C2_PumpOffOrder ==
    /\ [][pc # "pump_off" /\ pc' = "pump_off" => po_i' = 1]_vars
    /\ [][pc = "pump_off" /\ po_i' # po_i =>
            /\ state' = state /\ send_counter' = send_counter
            /\ out' = out /\ sockVars' = sockVars /\ buffer' = buffer
            /\ po_i = 1 => /\ gpio'.val[PUMP_OFFSET] = "Off"
                           /\ gpio'.val[VENT_OFFSET] = gpio.val[VENT_OFFSET]
                           /\ po_i' = 2
            /\ po_i = 2 => gpio' = gpio /\ po_i' = 3
            /\ po_i = 3 => /\ gpio'.val[VENT_OFFSET] = "On"
                           /\ gpio'.val[PUMP_OFFSET] = gpio.val[PUMP_OFFSET]
                           /\ po_i' = 4
            /\ po_i = 4 => gpio' = gpio /\ po_i' = 5
            /\ po_i = 5 => /\ gpio'.val[VENT_OFFSET] = "Off"
                           /\ gpio'.val[PUMP_OFFSET] = gpio.val[PUMP_OFFSET]
                           /\ po_i' = 6
            /\ po_i = 6 => /\ gpio' = gpio
                           /\ po_i' = 0
                           /\ pc' # "pump_off"
                           /\ ~pump' /\ ~vent']_vars

\* C2 witness: pump_off has done its three writes and is in its last wait,
\* with both lines Off.
C2_Witness ==
    /\ pc = "pump_off"
    /\ po_i = 6
    /\ ~pump /\ ~vent
    /\ ~hw_pump /\ ~hw_vent
    /\ is_on

\* C3: the pump and the vent are never both asserted: not as last written,
\* in any reachable state, and not on the hardware lines either as long as
\* every line write has succeeded.
C3_NeverBothAsserted ==
    /\ ~(pump /\ vent)
    /\ ~gpio.wfail => ~(hw_pump /\ hw_vent)

\* C3 witness: in the middle of pump_off, the vent is asserted (every write
\* so far succeeded) and the pump is already deasserted.
C3_Witness ==
    /\ pc = "pump_off"
    /\ po_i = 4
    /\ vent /\ hw_vent
    /\ ~pump /\ ~hw_pump
    /\ ~gpio.wfail

\* C4: since pump_off last completed (or since startup) the pump line has
\* been asserted at most once, and exactly once as soon as one 'pickup
\* reached' has been acted on, however many more follow and whatever
\* happens between them.
C4_EnergizeOnce ==
    /\ on_count <= 1
    /\ pickups >= 1 => on_count = 1

\* C4 witness: two 'pickup reached' were acted on with no pump_off between
\* them, a 'one sticker finished', an operator start and a reconnect all
\* happened after the first, and the pump was asserted once.
C4_Witness ==
    /\ pickups = 2
    /\ on_count = 1
    /\ pk_mid = {"finished", "start", "reconnect"}
    /\ is_on /\ pump

\* C5: a read on the connection that returns 0 or an error, and a select
\* error other than EINTR, each start reconnect(); a successful reconnect
\* leaves state = WAITING and send_counter = 0.
C5_ReconnectResets ==
    /\ [][read_n' \in {"eof", "error"} /\ read_n' # read_n
             => pc' = "rc_top"]_vars
    /\ [][select_res' = "error" /\ select_res # "error"
             => pc' = "rc_top"]_vars
    /\ [][pc = "rc_wait" /\ pc' = "loop_top"
             => state' = "WAITING" /\ send_counter' = 0]_vars

\* C5 witness: the peer closed the connection in DELIVERING with a counter
\* above 0, and the reconnect has just succeeded.
C5_Witness ==
    /\ pc = "loop_top"
    /\ read_n = "eof"
    /\ Len(fail_snap) = 2
    /\ fail_snap[1] = "DELIVERING"
    /\ fail_snap[2] > 0
    /\ state = "WAITING"
    /\ send_counter = 0

\* C6: in a run of tick timeouts in WAITING the heartbeat is written on
\* every 10th tick and on no other: a tick with the counter at 9 sends it, a
\* heartbeat is sent only by a tick in WAITING and leaves the counter at 0,
\* a heartbeat that follows another one through ticks alone comes exactly
\* 10 ticks after it, and the counter goes up only by 1, on a tick in
\* WAITING.
C6_HeartbeatEveryTenTicks ==
    /\ [](hb_gap <= 9)
    /\ [][Sends(MSG_WAIT) =>
            /\ pc = "select" /\ select_res' = "timeout"
            /\ state = "WAITING"
            /\ send_counter' = 0
            /\ hb_gap >= 0 => hb_gap = 9]_vars
    /\ [][pc = "select" /\ select_res' = "timeout" /\ state = "WAITING"
          /\ send_counter = 9 => Sends(MSG_WAIT)]_vars
    /\ [][send_counter' > send_counter =>
            /\ pc = "select" /\ select_res' = "timeout"
            /\ state = "WAITING"
            /\ send_counter' = send_counter + 1]_vars

\* C6 witness: a heartbeat has just been sent 10 ticks after the previous
\* one, with nothing but ticks in WAITING between the two.
C6_Witness ==
    /\ hb_pair
    /\ out = MSG_WAIT
    /\ send_counter = 0
    /\ state = "WAITING"

\* C7: send_counter is 0 after every step that sends the heartbeat, after
\* every step that takes DeliveryState from WAITING to DELIVERING, and so
\* each time WAITING is entered again.
C7_CounterResetOnLeavingWaiting ==
    [][/\ Sends(MSG_WAIT) => send_counter' = 0
       /\ state = "WAITING" /\ state' = "DELIVERING" => send_counter' = 0
       /\ state = "DELIVERING" /\ state' = "WAITING" => send_counter' = 0]_vars

\* C8: a newline read from local input in WAITING sends 'deliver a new
\* sticker' once and sets DELIVERING; DELIVERING is entered by no other
\* step; a byte that is not a newline, or one read in DELIVERING, sends
\* nothing and changes no state.
C8_StartOnlyOnNewline ==
    [][/\ pc = "stdin_br" /\ pc' # pc /\ stdin_n' = "byte" /\ c' = "nl"
          /\ state = "WAITING"
             => Sends(MSG_DELIVER) /\ state' = "DELIVERING"
       /\ state' = "DELIVERING" /\ state # "DELIVERING"
             => /\ pc = "stdin_br"
                /\ stdin_n' = "byte" /\ c' = "nl"
                /\ Sends(MSG_DELIVER)
       /\ pc = "stdin_br" /\ pc' # pc /\ stdin_n' = "byte"
          /\ (c' # "nl" \/ state = "DELIVERING")
             => out' = "none" /\ ctlVars' = ctlVars /\ gpio' = gpio]_vars

\* C9: in DELIVERING with the pump energized, a dispatched command that
\* contains 'drop reached' starts pump_off at its first statement, and
\* when pump_off returns to the loop the pump is Off, the vent is Off and
\* is_on is false.
C9_DropAlwaysVents ==
    /\ [][pc = "dispatch" /\ pc' # pc /\ state = "DELIVERING" /\ is_on
          /\ Find(cmd, DROP)
             => pc' = "pump_off" /\ po_i' = 1 /\ po_ret' = "dispatch"]_vars
    /\ [][pc = "pump_off" /\ pc' = "loop_top"
             => ~pump' /\ ~vent' /\ ~is_on']_vars

\* C10: in DELIVERING, a dispatched command that contains 'one sticker
\* finished' sets DeliveryState to WAITING, writes no valve line and does
\* not start pump_off.
C10_FinishedAlwaysWaits ==
    [][pc = "dispatch" /\ pc' # pc /\ state = "DELIVERING"
       /\ Find(cmd, FINISHED)
          => state' = "WAITING" /\ gpio' = gpio /\ pc' = "loop_top"]_vars

\* C11: on every path that releases the lines after acquiring them (address
\* setup failure, shutdown during the initial connect, shutdown or abandoned
\* reconnect in the main loop) the last thing done to the lines leaves them
\* safe: after the main loop an energized pump gets the whole pump_off
\* sequence from its first statement and an idle one gets both lines written
\* Off; the shutdown during the initial connect writes both lines Off; the
\* address failure releases right after the baseline wrote both Off.  So at
\* release the value last written to the pump and to the vent is Off, the
\* pump is not logically energized, and the lines themselves are Off unless
\* a write failed.
C11_SafeBeforeRelease ==
    /\ [](lines = "released" =>
            /\ ~pump /\ ~vent /\ ~is_on
            /\ safe_by \in {"baseline", "both_off", "pump_off"}
            /\ safe_by = "baseline" <=> exit_path = "inet_pton"
            /\ ~gpio.wfail => ~hw_pump /\ ~hw_vent)
    /\ [][lines = "held" /\ lines' = "released" =>
            \/ pc = "inet_pton" /\ gpio' = gpio
            \/ pc = "conn_done" /\ ~keep_running
                  /\ \E ok1, ok2 \in BOOLEAN : gpio' = BothOff(gpio, ok1, ok2)
            \/ pc = "release" /\ gpio' = gpio]_vars
    /\ [][pc = "final_safe" /\ pc' # pc =>
            IF is_on
            THEN pc' = "pump_off" /\ po_i' = 1 /\ po_ret' = "final"
            ELSE /\ pc' = "release"
                 /\ \E ok1, ok2 \in BOOLEAN : gpio' = BothOff(gpio, ok1, ok2)]_vars
    /\ [][pc # "release" /\ pc' = "release" =>
            \/ pc = "final_safe" /\ ~is_on
            \/ pc = "pump_off" /\ po_ret = "final" /\ po_i = Len(pump_off)]_vars

\* C11 witness: a reconnect was abandoned on the shutdown flag with the pump
\* energized, pump_off ran at the end and the lines were released Off.
C11_Witness ==
    /\ pc = "exited"
    /\ lines = "released"
    /\ exit_path = "rc_flag"
    /\ safe_by = "pump_off"
    /\ ~pump /\ ~vent /\ ~is_on
\* The process has ended: main() returned or the process was aborted.
C12_Terminated == pc \in {"exited", "aborted"}

\* C12: with main() always taking its next step, once keep_running is false
\* the process ends: keep_running never becomes true again, an ended
\* process stays ended, and at every moment there is a later one where
\* keep_running is still true or the process has ended.  The initial
\* connect loop, the reconnect loop and the main loop each leave at their
\* next test of the flag, and the main loop is left only when the flag is
\* seen false at its top or when reconnect() returned false.
C12_ShutdownTerminates ==
    /\ []<>(keep_running \/ C12_Terminated)
    /\ [][~keep_running => ~keep_running']_vars
    /\ [][C12_Terminated => C12_Terminated']_vars
    /\ [][~keep_running /\ pc' # pc =>
            /\ pc = "conn_top" => pc' = "conn_done"
            /\ pc = "conn_done" => pc' = "exited"
            /\ pc = "rc_top" => pc' = "final_close"
            /\ pc = "loop_top" => pc' = "final_close"]_vars
    /\ [][pc # "final_close" /\ pc' = "final_close" =>
            \/ pc = "loop_top" /\ ~keep_running
            \/ pc = "rc_top" /\ (~keep_running \/ sockfd' = "-1")]_vars

\* C12 witness: SIGINT arrived while reconnect() was retrying after a failed
\* attempt, the retry loop saw the flag at its next test and main() returned.
C12_Witness ==
    /\ pc = "exited"
    /\ ~keep_running
    /\ exit_path = "rc_flag"
    /\ lines = "released"
\* A failed connect (refused or timed out) closes the socket, waits and goes
\* back to the top of its loop, however many attempts have failed before;
\* a successful one leaves the loop with the socket open.
C13_ConnectFailureRetries ==
    /\ [][pc = "conn_wait" /\ pc' # pc =>
            \/ pc' = "conn_done" /\ sockfd' = "fd" /\ open_fds' = 1
            \/ pc' = "conn_sleep" /\ open_fds' = 0]_vars
    /\ [][pc = "rc_wait" /\ pc' # pc =>
            \/ pc' = "loop_top" /\ sockfd' = "fd" /\ open_fds' = 1
            \/ pc' = "rc_sleep" /\ open_fds' = 0]_vars
    /\ [][pc = "conn_sleep" /\ pc' # pc => pc' = "conn_top"]_vars
    /\ [][pc = "rc_sleep" /\ pc' # pc => pc' = "rc_top"]_vars

\* C13: the initial connect loop and reconnect() retry without a maximum
\* count and end only with a successful connection or after observing
\* keep_running false: neither a connect failure nor a socket() failure
\* makes them give up.
C13_EndsOnlyOnSuccessOrFlag ==
    /\ C13_ConnectFailureRetries
    /\ [][pc = "conn_top" /\ pc' # pc /\ keep_running => pc' = "conn_wait"]_vars
    /\ [][pc = "rc_top" /\ pc' # pc /\ keep_running => pc' = "rc_wait"]_vars

\* C13 amended: the initial connect loop and reconnect() retry without a
\* maximum count and end only with a successful connection, after observing
\* keep_running false, or when socket() fails: a connect failure never
\* makes them give up, a socket() failure ends them at once.
C13_EndsOnSuccessFlagOrSocketFailure ==
    /\ C13_ConnectFailureRetries
    /\ [][pc = "conn_top" /\ pc' # pc /\ keep_running =>
            \/ pc' = "conn_wait" /\ sockfd' = "fd"
            \/ pc' = "conn_done" /\ sockfd' = "-1"]_vars
    /\ [][pc = "rc_top" /\ pc' # pc /\ keep_running =>
            \/ pc' = "rc_wait" /\ sockfd' = "fd"
            \/ pc' = "final_close" /\ sockfd' = "-1"]_vars
    /\ [][pc = "conn_top" /\ pc' # pc /\ ~keep_running => pc' = "conn_done"]_vars
    /\ [][pc = "rc_top" /\ pc' # pc /\ ~keep_running => pc' = "final_close"]_vars

\* C13 witness: reconnect() succeeded after MaxRetries failed attempts, with
\* keep_running still true.
C13_Witness ==
    /\ pc = "loop_top"
    /\ fail_snap # <<>>
    /\ retries = MaxRetries
    /\ keep_running
    /\ sockfd = "fd" /\ open_fds = 1
\* C14: a transport error (failed connect, failed or empty read, select
\* error) never ends the process by itself, it leads to another connection
\* attempt; the initial connect loop or reconnect() ends the process only
\* when keep_running was found false while connecting, and then main()
\* returns a non-zero status.
C14_TransportErrorsRetryOrFail ==
    /\ [][(pc \in {"select", "sock_br"}) /\ pc' # pc /\ fail_snap' # fail_snap =>
            pc' = "rc_top"]_vars
    /\ [][(pc \in {"conn_wait", "rc_wait"}) /\ pc' # pc =>
            pc' \in {"conn_done", "conn_sleep", "loop_top", "rc_sleep"}]_vars
    /\ [](pc = "exited" /\ exit_path \in {"conn", "rc_flag"} =>
            ~keep_running /\ exit_code = 1)
\* C15: when socket() fails at the very first connection attempt the
\* process goes straight to its exit with a non-zero status: it never
\* enters the main loop.
C15_FirstSocketFailureIsFatal ==
    /\ sock0_failed => pc \in {"conn_done", "exited"}
    /\ sock0_failed /\ pc = "exited" => exit_code = 1
\* C16: every socket() call finds no descriptor of the process still open,
\* so the process never holds more than one socket descriptor, and a
\* connection attempt under way is the only one.
C16_OneSocketAtATime ==
    /\ [](open_fds <= 1)
    /\ [](pc \in {"conn_wait", "rc_wait"} => sockfd = "fd" /\ open_fds = 1)
    /\ [][open_fds' > open_fds =>
            /\ pc \in {"conn_top", "rc_top"}
            /\ open_fds = 0
            /\ open_fds' = 1]_vars
    /\ [][(pc \in {"conn_top", "rc_top"}) /\ pc' # pc /\ keep_running =>
            open_fds = 0]_vars

\* C16 witness: reconnect() has opened a new socket after the failed
\* descriptor and the socket of an earlier failed attempt were both closed.
C16_Witness ==
    /\ pc = "rc_wait"
    /\ retries >= 1
    /\ sockfd = "fd"
    /\ open_fds = 1
    /\ ~bad_close
\* C17: SIGINT only clears keep_running.  A pump_off under way goes on
\* statement by statement whatever the flag says, and returns with both
\* lines written Off; the flag starts the shutdown only where a loop tests
\* it: at the top of the main loop, of the reconnect loop, or after the
\* initial connect loop.
C17_ShutdownNeverInterruptsPumpOff ==
    /\ [][keep_running' # keep_running =>
            /\ ~keep_running'
            /\ pc' = pc /\ poVars' = poVars /\ gpio' = gpio
            /\ ctlVars' = ctlVars /\ sockVars' = sockVars]_vars
    /\ [][pc = "pump_off" /\ po_i' # po_i =>
            IF po_i < Len(pump_off)
            THEN pc' = "pump_off" /\ po_i' = po_i + 1
            ELSE /\ pc' = (IF po_ret = "dispatch" THEN "loop_top" ELSE "release")
                 /\ ~pump' /\ ~vent' /\ ~is_on']_vars
    /\ [](sig_in_po /\ pc # "pump_off" => ~pump /\ ~vent /\ ~is_on)
    /\ [][exit_path' # exit_path /\ (exit_path' \in {"conn", "loop", "rc_flag"}) =>
            /\ ~keep_running
            /\ pc \in {"conn_done", "loop_top", "rc_top"}]_vars

\* C17 witness: SIGINT arrived while pump_off, called for 'drop reached',
\* was running; the sequence has completed and the main loop has not yet
\* tested the flag.
C17_Witness ==
    /\ pc = "loop_top"
    /\ sig_in_po
    /\ ~keep_running
    /\ exit_path = "none"
    /\ read_n = "data" /\ Find(cmd, DROP)
    /\ ~pump /\ ~vent /\ ~is_on
\* C18: from the transport failure to the end of reconnect() nothing but
\* the socket, DeliveryState and the heartbeat counter changes: is_on and
\* both lines keep their values, and a successful reconnect sets WAITING
\* and counter 0.  A pump that is energized stops being so only inside
\* pump_off, and pump_off is entered only for 'drop reached' dispatched in
\* DELIVERING or by the final shutdown.
C18_ReconnectKeepsActuators ==
    /\ [][pc' = "rc_top" \/ (pc \in {"rc_top", "rc_wait", "rc_sleep"}) =>
            /\ is_on' = is_on /\ gpio' = gpio /\ lines' = lines
            /\ poVars' = poVars]_vars
    /\ [][pc = "rc_wait" /\ pc' = "loop_top" =>
            /\ state' = "WAITING" /\ send_counter' = 0
            /\ sockfd' = "fd" /\ open_fds' = 1]_vars
    /\ [][is_on /\ pump /\ (~is_on' \/ ~pump') => pc = "pump_off"]_vars
    /\ [][pc # "pump_off" /\ pc' = "pump_off" =>
            \/ pc = "dispatch" /\ state = "DELIVERING"
                  /\ Branch(state, cmd) = "drop"
            \/ pc = "final_safe"]_vars

\* C18 witness: the connection dropped with the pump energized, reconnect()
\* succeeded after a failed attempt, and the pump is still energized in
\* WAITING.
C18_Witness ==
    /\ pc = "loop_top"
    /\ fail_snap # <<>>
    /\ retries >= 1
    /\ state = "WAITING"
    /\ send_counter = 0
    /\ is_on /\ pump /\ ~vent
\* C19: close() is never called on a descriptor that is already closed, and
\* when main() has returned no socket descriptor is open.
C19_EverySocketClosedOnce ==
    /\ ~bad_close
    /\ pc = "exited" => open_fds = 0
\* C20: in an iteration where select reported both stdin and the socket,
\* stdin is read before the socket.  A newline taken in WAITING has set
\* DELIVERING and written 'deliver a new sticker' before the socket is
\* read, so the buffer read in that iteration is dispatched in DELIVERING
\* and 'pickup reached' in it energizes an idle pump; if that read fails
\* instead, the state failing is DELIVERING and the reconnect then sets
\* WAITING, after the message was written.
C20_StdinBeforeSocket ==
    /\ [](pc = "stdin_br" => read_n = "none")
    /\ [](pc = "sock_br" /\ rd_stdin => stdin_n # "none")
    /\ [](pc = "sock_br" /\ iter_start =>
            state = "DELIVERING" /\ out = MSG_DELIVER /\ read_n = "none")
    /\ [](pc = "dispatch" /\ iter_start =>
            state = "DELIVERING" /\ Branch(state, cmd) = BranchAnyState(state, cmd))
    /\ [][pc = "dispatch" /\ pc' # pc /\ iter_start /\ Find(cmd, PICKUP) /\ ~is_on =>
            is_on' /\ pump']_vars
    /\ [](iter_start /\ (pc \in {"rc_top", "rc_wait", "rc_sleep"}) =>
            fail_snap # <<>> /\ fail_snap[1] = "DELIVERING")
    /\ [][iter_start /\ pc = "rc_wait" /\ pc' = "loop_top" =>
            state = "DELIVERING" /\ state' = "WAITING"]_vars

\* C20 witness: the start was taken and, in the same iteration, a buffer
\* containing 'pickup reached' was read and energized the pump.
C20_Witness ==
    /\ pc = "loop_top"
    /\ iter_start
    /\ read_n = "data"
    /\ Find(cmd, PICKUP)
    /\ state = "DELIVERING"
    /\ pickups = 1 /\ on_count = 1
    /\ is_on /\ pump
====
